---- MODULE Spec2Model ----
(***************************************************************************)
(* Model of python-mysql-docker/app.py: connect_to_mysql() run repeatedly  *)
(* against one MySQL database (testdb) that persists between runs.         *)
(*                                                                         *)
(* Every call into mysql.connector is one step whose outcome is drawn      *)
(* from {success, mysql.connector.Error}; a failing call may or may not    *)
(* take the network session down with it.  The engine side is modelled by  *)
(* what the SQL text of the script asks for: CREATE TABLE IF NOT EXISTS,   *)
(* an INT AUTO_INCREMENT PRIMARY KEY, an INSERT held in the session's      *)
(* transaction until commit() (connector default: autocommit off), and     *)
(* SELECT * which sees committed rows plus the session's own pending rows. *)
(* The created_at column is never read by the script beyond fetching it    *)
(* and is left out of the row.                                             *)
(***************************************************************************)
EXTENDS Integers, Sequences, FiniteSets, TLC

\* ---- bounds -------------------------------------------------------------
MaxRuns == 2        \* consecutive executions of the script
MaxInitRows == 2    \* rows already in users before the first run
MaxGap == 2         \* AUTO_INCREMENT values already burnt before the first run

\* ---- program constants ----------------------------------------------------
IntMax == 2147483647    \* largest value of the INT id column

VARIABLES
    db,          \* the server: [exists, rows (committed, insertion order), nextId]
    preRun,      \* db as it was when the current run started
    runNo,       \* number of the current run
    pc,          \* statement of connect_to_mysql about to execute
    connection,  \* local `connection`: [bound, live]
    txn,         \* rows inserted by this session and not yet committed
    resultSet,   \* rows held by the cursor after execute(SELECT)
    users,       \* local `users`
    ops,         \* database requests issued by this run, in order
    out,         \* lines printed by this run, in order
    printed,     \* rows rendered by the listing loop
    closes,      \* calls of connection.close() in this run
    checked,     \* result of is_connected() in the try block
    releaseGuard,\* result of is_connected() in the finally block
    failedAt,    \* the statement that raised mysql.connector.Error
    fault,       \* exception that escaped connect_to_mysql
    hist         \* one record per finished run

vars == <<db, preRun, runNo, pc, connection, txn, resultSet, users, ops, out,
          printed, closes, checked, releaseGuard, failedAt, fault, hist>>

\* ---- helpers ------------------------------------------------------------
Count(s, x) == Cardinality({i \in 1..Len(s) : s[i] = x})

Ids(s) == {s[i].id : i \in 1..Len(s)}

Op(name, ok) == [op |-> name, ok |-> ok, cols |-> {}]

Names == {"Alice", "Bob"}

EmailOf(n) == IF n = "Alice" THEN "alice@example.com" ELSE "bob@example.com"

\* ---- the engine -----------------------------------------------------------
CreateStmtPlain == [ifNotExists |-> FALSE]

\* CREATE TABLE IF NOT EXISTS users (...)
CreateStmt == [ifNotExists |-> TRUE]

\* the engine refuses to create a table that is there, unless told IF NOT EXISTS
CreateAccepted(d, stmt) == stmt.ifNotExists \/ ~d.exists

CreateOrReplace(d) == [d EXCEPT !.exists = TRUE, !.rows = <<>>]

\* the table after the CREATE: an existing one is left as it is
CreateTableIfNotExists(d) ==
    IF d.exists THEN d ELSE [d EXCEPT !.exists = TRUE, !.rows = <<>>]

InsertStmtWithId ==
    [cols |-> {"id", "name", "email"},
     vals |-> [id |-> 1, name |-> "Alice", email |-> "alice@example.com"]]

InsertStmtBob ==
    [cols |-> {"name", "email"},
     vals |-> [id |-> 0, name |-> "Bob", email |-> "bob@example.com"]]

\* INSERT INTO users (name, email) VALUES ('Alice', 'alice@example.com')
InsertStmt ==
    [cols |-> {"name", "email"},
     vals |-> [id |-> 0, name |-> "Alice", email |-> "alice@example.com"]]

\* id INT AUTO_INCREMENT PRIMARY KEY: the id the engine gives the new row
RowId(d, stmt) == IF "id" \in stmt.cols THEN stmt.vals.id ELSE d.nextId

\* the counter after id was used: it stops at the top of the INT range
Bump(d, id) == IF id < d.nextId THEN d.nextId ELSE IF id >= IntMax THEN IntMax ELSE id + 1

\* the engine takes the row: table present, id in range, primary key unused
InsertAccepted(d, t, stmt) ==
    /\ d.exists
    /\ RowId(d, stmt) <= IntMax
    /\ RowId(d, stmt) \notin Ids(d.rows) \cup Ids(t)

InsertAutocommit(d, t, stmt) ==
    LET id == RowId(d, stmt)
        row == [id |-> id, name |-> stmt.vals.name, email |-> stmt.vals.email]
    IN [db  |-> [d EXCEPT !.rows = Append(d.rows, row),
                          !.nextId = Bump(d, id)],
        txn |-> t]

\* the row joins the session's transaction; the counter moves at once
InsertUser(d, t, stmt) ==
    LET id == RowId(d, stmt)
        row == [id |-> id, name |-> stmt.vals.name, email |-> stmt.vals.email]
    IN [db  |-> [d EXCEPT !.nextId = Bump(d, id)],
        txn |-> Append(t, row)]

\* connection.commit()
Commit(d, t) == [d EXCEPT !.rows = d.rows \o t]

\* SELECT * FROM users, as this session sees it
SelectAll(d, t) == d.rows \o t

\* ---- the handle -----------------------------------------------------------
Unbound == [bound |-> FALSE, live |-> FALSE]

Handle(l) == [bound |-> TRUE, live |-> l]

\* connection.is_connected(): a ping; a dead session never answers
IsConnectedResults(c) == IF c.live THEN BOOLEAN ELSE {FALSE}

ReleaseAlways(r) == 1

\* finally: if connection.is_connected(): connection.close()
ReleaseCloses(r) == IF r THEN 1 ELSE 0

AfterCheckAlways(r) == "cursor"

\* if connection.is_connected(): <body>
AfterCheck(r) == IF r THEN "cursor" ELSE "finally"

SuccReadFirst(s) ==
    CASE s = "connect" -> "check"
      [] s = "cursor"  -> "create"
      [] s = "create"  -> "insert"
      [] s = "insert"  -> "select"
      [] s = "select"  -> "fetch"
      [] s = "fetch"   -> "commit"
      [] s = "commit"  -> "print"
      [] s = "print"   -> "finally"
      [] s = "except"  -> "finally"
      [] OTHER         -> "done"

\* the statement that follows s when s does not raise
Succ(s) ==
    CASE s = "connect" -> "check"
      [] s = "cursor"  -> "create"
      [] s = "create"  -> "insert"
      [] s = "insert"  -> "commit"
      [] s = "commit"  -> "select"
      [] s = "select"  -> "fetch"
      [] s = "fetch"   -> "print"
      [] s = "print"   -> "finally"
      [] s = "except"  -> "finally"
      [] OTHER         -> "done"

\* ---- initial database states ----------------------------------------------
RowsOf(ns) == [i \in 1..Len(ns) |-> [id |-> i, name |-> ns[i], email |-> EmailOf(ns[i])]]

InitDBs ==
    {[exists |-> FALSE, rows |-> <<>>, nextId |-> 1]}
    \cup {[exists |-> TRUE, rows |-> RowsOf(ns), nextId |-> Len(ns) + 1 + g] :
            ns \in UNION {[1..n -> Names] : n \in 0..MaxInitRows}, g \in {0, MaxGap}}
    \cup {[exists |-> TRUE,
           rows |-> <<[id |-> IntMax - 1, name |-> "Bob", email |-> "bob@example.com"]>>,
           nextId |-> IntMax]}

Init ==
    /\ db \in InitDBs
    /\ preRun = db
    /\ runNo = 1
    /\ pc = "connect"
    /\ connection = Unbound
    /\ txn = <<>>
    /\ resultSet = <<>>
    /\ users = <<>>
    /\ ops = <<>>
    /\ out = <<>>
    /\ printed = <<>>
    /\ closes = 0
    /\ checked = "unset"
    /\ releaseGuard = "unset"
    /\ failedAt = "none"
    /\ fault = "none"
    /\ hist = <<>>

\* ---- raising ------------------------------------------------------------
\* a call at statement s raises mysql.connector.Error; control goes to except
Raise(s, name) ==
    /\ pc' = "except"
    /\ failedAt' = s
    /\ ops' = Append(ops, Op(name, FALSE))
    /\ \E l \in IsConnectedResults(connection) : connection' = [connection EXCEPT !.live = l]
    /\ UNCHANGED <<db, txn, preRun, runNo, resultSet, users, out, printed, closes,
                   checked, releaseGuard, fault, hist>>

\* ---- connect_to_mysql, statement by statement -----------------------------
\* mysql.connector.connect(host='localhost', port=3306, ...)
Connect ==
    /\ pc = "connect"
    /\ \/ /\ connection' = Handle(TRUE)
          /\ ops' = Append(ops, Op("connect", TRUE))
          /\ pc' = Succ("connect")
          /\ UNCHANGED <<db, txn, preRun, runNo, resultSet, users, out, printed,
                         closes, checked, releaseGuard, failedAt, fault, hist>>
       \/ Raise("connect", "connect")

\* if connection.is_connected(): print the two banner lines
IsConnected ==
    /\ pc = "check"
    /\ \E r \in IsConnectedResults(connection) :
          /\ connection' = [connection EXCEPT !.live = r]
          /\ pc' = AfterCheck(r)
          /\ out' = IF r THEN out \o <<"connected", "version">> ELSE out
          /\ checked' = IF r THEN "true" ELSE "false"
    /\ UNCHANGED <<db, txn, preRun, runNo, resultSet, users, ops, printed,
                   closes, releaseGuard, failedAt, fault, hist>>

\* cursor = connection.cursor()
Cursor ==
    /\ pc = "cursor"
    /\ \/ /\ connection.live
          /\ pc' = Succ("cursor")
          /\ ops' = Append(ops, Op("cursor", TRUE))
          /\ UNCHANGED <<db, txn, preRun, runNo, connection, resultSet, users, out,
                         printed, closes, checked, releaseGuard, failedAt, fault, hist>>
       \/ Raise("cursor", "cursor")

\* cursor.execute(CREATE TABLE IF NOT EXISTS users ...); print
CreateTableOK ==
    /\ pc = "create"
    /\ connection.live
    /\ CreateAccepted(db, CreateStmt)
    /\ db' = CreateTableIfNotExists(db)
    /\ ops' = Append(ops, Op("create", TRUE))
    /\ out' = Append(out, "table_created")
    /\ pc' = Succ("create")
    /\ UNCHANGED <<txn, preRun, runNo, connection, resultSet, users, printed,
                   closes, checked, releaseGuard, failedAt, fault, hist>>

CreateTable ==
    \/ CreateTableOK
    \/ pc = "create" /\ Raise("create", "create")

\* cursor.execute(INSERT INTO users (name, email) VALUES (...))
Insert ==
    /\ pc = "insert"
    /\ \/ /\ connection.live
          /\ InsertAccepted(db, txn, InsertStmt)
          /\ db' = InsertUser(db, txn, InsertStmt).db
          /\ txn' = InsertUser(db, txn, InsertStmt).txn
          /\ ops' = Append(ops, [op |-> "insert", ok |-> TRUE, cols |-> InsertStmt.cols])
          /\ pc' = Succ("insert")
          /\ UNCHANGED <<preRun, runNo, connection, resultSet, users, out, printed,
                         closes, checked, releaseGuard, failedAt, fault, hist>>
       \/ /\ pc' = "except"
          /\ failedAt' = "insert"
          /\ ops' = Append(ops, [op |-> "insert", ok |-> FALSE, cols |-> InsertStmt.cols])
          /\ \E l \in IsConnectedResults(connection) :
                connection' = [connection EXCEPT !.live = l]
          /\ UNCHANGED <<db, txn, preRun, runNo, resultSet, users, out, printed,
                         closes, checked, releaseGuard, fault, hist>>

\* connection.commit(); print
CommitStep ==
    /\ pc = "commit"
    /\ \/ /\ connection.live
          /\ db' = Commit(db, txn)
          /\ txn' = <<>>
          /\ ops' = Append(ops, Op("commit", TRUE))
          /\ out' = Append(out, "inserted")
          /\ pc' = Succ("commit")
          /\ UNCHANGED <<preRun, runNo, connection, resultSet, users, printed,
                         closes, checked, releaseGuard, failedAt, fault, hist>>
       \/ Raise("commit", "commit")

\* cursor.execute("SELECT * FROM users")
Select ==
    /\ pc = "select"
    /\ \/ /\ connection.live
          /\ db.exists
          /\ resultSet' = SelectAll(db, txn)
          /\ ops' = Append(ops, Op("select", TRUE))
          /\ pc' = Succ("select")
          /\ UNCHANGED <<db, txn, preRun, runNo, connection, users, out, printed,
                         closes, checked, releaseGuard, failedAt, fault, hist>>
       \/ Raise("select", "select")

\* users = cursor.fetchall()
FetchAll ==
    /\ pc = "fetch"
    /\ \/ /\ connection.live
          /\ users' = resultSet
          /\ ops' = Append(ops, Op("fetchall", TRUE))
          /\ pc' = Succ("fetch")
          /\ UNCHANGED <<db, txn, preRun, runNo, connection, resultSet, out, printed,
                         closes, checked, releaseGuard, failedAt, fault, hist>>
       \/ Raise("fetch", "fetchall")

\* the listing loop over users, then cursor.close()
RenderUsers ==
    /\ pc = "print"
    /\ printed' = [i \in 1..Len(users) |->
                     [id |-> users[i].id, name |-> users[i].name, email |-> users[i].email]]
    /\ out' = Append(out, "listing")
    /\ pc' = Succ("print")
    /\ UNCHANGED <<db, txn, preRun, runNo, connection, resultSet, users, ops,
                   closes, checked, releaseGuard, failedAt, fault, hist>>

\* except Error as e: print
Except ==
    /\ pc = "except"
    /\ out' = Append(out, "error")
    /\ pc' = Succ("except")
    /\ UNCHANGED <<db, txn, preRun, runNo, connection, resultSet, users, ops,
                   printed, closes, checked, releaseGuard, failedAt, fault, hist>>

\* what a finished run leaves behind for the next one to be compared with
RunRecord(d, f) ==
    [start |-> Len(preRun.rows),
     end   |-> Len(d.rows),
     ok    |-> failedAt = "none" /\ f = "none" /\ Count(out, "listing") = 1]

\* finally: if connection.is_connected(): connection.close(); print
\* When connect() raised, `connection` was never assigned and reading it
\* raises UnboundLocalError, which nothing catches.
Finally ==
    /\ pc = "finally"
    /\ \/ /\ ~connection.bound
          /\ fault' = "UnboundLocalError"
          /\ pc' = "crashed"
          /\ hist' = Append(hist, RunRecord(db, "UnboundLocalError"))
          /\ UNCHANGED <<db, txn, preRun, runNo, connection, resultSet, users, ops,
                         out, printed, closes, checked, releaseGuard, failedAt>>
       \/ /\ connection.bound
          /\ \E r \in IsConnectedResults(connection) :
                /\ releaseGuard' = IF r THEN "true" ELSE "false"
                /\ closes' = closes + ReleaseCloses(r)
                /\ ops' = IF ReleaseCloses(r) > 0
                            THEN Append(ops, Op("close", TRUE)) ELSE ops
                /\ out' = IF r THEN Append(out, "closed") ELSE out
          /\ connection' = Handle(FALSE)
          /\ txn' = <<>>
          /\ pc' = "done"
          /\ hist' = Append(hist, RunRecord(db, "none"))
          /\ UNCHANGED <<db, preRun, runNo, resultSet, users, printed, checked,
                         failedAt, fault>>

\* the script is started again
StartRun ==
    /\ pc \in {"done", "crashed"}
    /\ runNo < MaxRuns
    /\ runNo' = runNo + 1
    /\ preRun' = db
    /\ pc' = "connect"
    /\ connection' = Unbound
    /\ txn' = <<>>
    /\ resultSet' = <<>>
    /\ users' = <<>>
    /\ ops' = <<>>
    /\ out' = <<>>
    /\ printed' = <<>>
    /\ closes' = 0
    /\ checked' = "unset"
    /\ releaseGuard' = "unset"
    /\ failedAt' = "none"
    /\ fault' = "none"
    /\ UNCHANGED <<db, hist>>

Next ==
    \/ Connect
    \/ IsConnected
    \/ Cursor
    \/ CreateTable
    \/ Insert
    \/ CommitStep
    \/ Select
    \/ FetchAll
    \/ RenderUsers
    \/ Except
    \/ Finally
    \/ StartRun

Spec == Init /\ [][Next]_vars

TypeOK ==
    /\ db.exists \in BOOLEAN
    /\ runNo \in 1..MaxRuns
    /\ closes \in 0..2
    /\ Len(hist) <= runNo

\* ---- properties -----------------------------------------------------------
Ended == pc \in {"done", "crashed"}

Rank(name) ==
    CASE name = "connect"  -> 1
      [] name = "cursor"   -> 2
      [] name = "create"   -> 3
      [] name = "insert"   -> 4
      [] name = "commit"   -> 5
      [] name = "select"   -> 6
      [] name = "fetchall" -> 7
      [] OTHER             -> 8

Increasing(s) == \A i \in 1..Len(s) : \A j \in 1..Len(s) : i < j => s[i].id < s[j].id

IsAlice(r) == r.name = "Alice" /\ r.email = "alice@example.com"

\* C1: a run whose connect() raised prints one failure line, ends without an
\* exception escaping connect_to_mysql, and never calls close().
C1_ConnectFailureEndsCleanly ==
    (failedAt = "connect" /\ Ended) =>
        /\ fault = "none"
        /\ Count(out, "error") = 1
        /\ closes = 0

\* C2 (as stated): every finished run that got a handle from connect() has
\* called close() exactly once, whatever happened afterwards.
C2_ClosedExactlyOnce == (Ended /\ connection.bound) => closes = 1

\* C2 (amended): close() is never called twice; a finished run that got a
\* handle has called close() exactly once when the handle still reported
\* itself connected in the finally block, and not at all when it did not.
C2_ClosedOnceIffStillConnected ==
    /\ closes <= 1
    /\ (Ended /\ connection.bound) =>
          /\ releaseGuard \in {"true", "false"}
          /\ closes = (IF releaseGuard = "true" THEN 1 ELSE 0)
          /\ Count(ops, Op("close", TRUE)) = closes

C2_Witness ==
    /\ pc = "done"
    /\ failedAt \in {"create", "insert", "commit", "select", "fetch"}
    /\ closes = 1

\* C3: a run in which a database call raised reports the failure exactly
\* once, issues no further database request after the failing one, runs the
\* release step, and ends without an exception escaping.
C3_FailureCaughtOnce ==
    (failedAt # "none" /\ Ended) =>
        /\ Count(out, "error") = 1
        /\ \A i \in 1..Len(ops) : ~ops[i].ok =>
              \A j \in 1..Len(ops) : j > i => ops[j].op = "close"
        /\ releaseGuard # "unset"
        /\ fault = "none"

\* C4: two successive runs that both complete add exactly one committed row
\* each, two in total, whatever the table held (or did not hold) before.
C4_TwoRunsAddTwoRows ==
    \A i \in 1..Len(hist) :
        (i < Len(hist) /\ hist[i].ok /\ hist[i + 1].ok) =>
            /\ hist[i].end = hist[i].start + 1
            /\ hist[i + 1].start = hist[i].end
            /\ hist[i + 1].end = hist[i].start + 2

C4_Witness ==
    /\ Len(hist) >= 2
    /\ hist[1].ok /\ hist[2].ok
    /\ hist[1].start > 0

\* C5: once a run has printed its listing, the listing holds a row
\* ('Alice', 'alice@example.com') that was not in the table before the run,
\* and the committed table holds that row.
C5_ListingHasAlice ==
    (Count(out, "listing") = 1) =>
        \E i \in 1..Len(printed) :
            /\ IsAlice(printed[i])
            /\ printed[i].id \notin Ids(preRun.rows)
            /\ \E j \in 1..Len(db.rows) : db.rows[j] = printed[i]

C5_Witness ==
    /\ pc = "done"
    /\ Count(out, "listing") = 1
    /\ Len(preRun.rows) = 1
    /\ ~IsAlice(preRun.rows[1])

\* C6: in every state the ids of the rows (committed, then pending) strictly
\* increase in insertion order, each id was handed out by the AUTO_INCREMENT
\* counter, and no INSERT the client issued named the id column.
C6_IdsEngineAssigned ==
    /\ Increasing(db.rows \o txn)
    /\ \A id \in Ids(db.rows \o txn) : id >= 1 /\ id <= IntMax /\ (id < db.nextId \/ id = IntMax)
    /\ \A i \in 1..Len(ops) : ops[i].op = "insert" => "id" \notin ops[i].cols

C6_Witness ==
    /\ Len(hist) = 2
    /\ ~hist[1].ok /\ hist[1].end = hist[1].start
    /\ hist[2].ok
    /\ Len(db.rows) >= 2
    /\ db.rows[Len(db.rows)].id > db.rows[Len(db.rows) - 1].id + 1

\* C7: the CREATE TABLE step can succeed whether or not users exists, and
\* once it has succeeded the table exists and holds exactly the rows it held
\* before.
C7_EnsureSchemaKeepsRows ==
    /\ (pc = "create" /\ connection.live) => ENABLED CreateTableOK
    /\ pc = "insert" => /\ db.exists
                        /\ db.rows = preRun.rows
                        /\ db.nextId = preRun.nextId

C7_Witness ==
    /\ pc = "insert"
    /\ preRun.exists
    /\ Len(preRun.rows) = 2

\* C8: the requests of one run are issued in the order connect, cursor,
\* create, insert, commit, select, fetchall, each only after the one before
\* it succeeded, and close() comes last, after the try block is over.
C8_StepOrder ==
    /\ Len(ops) > 0 => ops[1].op = "connect"
    /\ \A i \in 2..Len(ops) :
          IF ops[i].op = "close"
             THEN i = Len(ops) /\ pc = "done"
             ELSE ops[i - 1].ok /\ Rank(ops[i].op) = Rank(ops[i - 1].op) + 1
    /\ Count(out, "listing") = 1 => \E i \in 1..Len(ops) : ops[i] = Op("fetchall", TRUE)
    /\ Count(out, "closed") = 1 => out[Len(out)] = "closed"

C8_Witness == pc = "done" /\ Len(ops) = 8 /\ ops[8].op = "close"

\* C9: a run changes the committed rows by appending at most one row, and
\* changes nothing as long as commit() has not succeeded in that run.
C9_DurableOnlyByCommit ==
    /\ \/ db.rows = preRun.rows
       \/ /\ Len(db.rows) = Len(preRun.rows) + 1
          /\ \A i \in 1..Len(preRun.rows) : db.rows[i] = preRun.rows[i]
    /\ Count(ops, Op("commit", TRUE)) = 0 => db.rows = preRun.rows

C9_Witness ==
    /\ pc = "done"
    /\ failedAt = "commit"
    /\ db.nextId # preRun.nextId

\* C10: when connect() returned a handle and is_connected() answered False
\* in the try block, the run issues no request beyond the connect, prints
\* nothing, never calls close(), raises nothing and leaves the database as
\* it was.
C10_NotConnectedHandleIsNoOp ==
    checked = "false" =>
        /\ pc \in {"finally", "done"}
        /\ ops = <<Op("connect", TRUE)>>
        /\ out = <<>>
        /\ closes = 0
        /\ failedAt = "none"
        /\ fault = "none"
        /\ db = preRun

C10_Witness == checked = "false" /\ pc = "done"
====
